---- MODULE Spec2Model ----
(***************************************************************************)
(* Kang-Mas Shop (src/app.py): the double-entry bookkeeping module.        *)
(* The database tables Account, JournalEntry and JournalDetail are the     *)
(* state; create_journal_entry, create_journal_from_template,              *)
(* create_initial_data, the report generators and the shop routes that post *)
(* journals (orders, products, template journals) are the operations.      *)
(* Amounts are whole rupiah (integers); the clock is the number of seconds *)
(* since 2025-01-01 00:00:00, a date the number of days since 2025-01-01.  *)
(***************************************************************************)
EXTENDS Integers, Sequences, FiniteSets, TLC

VARIABLES
    accounts,      \* table Account: sequence of rows, the row's id is its index
    journals,      \* table JournalEntry: sequence of rows, id = index
    details,       \* table JournalDetail: sequence of rows
    now,           \* datetime.now(), in seconds since 2025-01-01 00:00:00
    initialised,   \* create_initial_data has run in this process
    ret,           \* outcome of the last call
    generated,     \* log of the calls of generate_unique_transaction_number
    pc,            \* concurrent requests: position of each request
    sess,          \* concurrent requests: each request's SQLAlchemy session
    lock,          \* concurrent requests: holder of SQLite's write lock (0: free)
    prior,         \* concurrent requests: the Account table when they started
    products,      \* table Product: sequence of rows, id = index
    orders,        \* tables Order and OrderItem: each order with its items
    report,        \* what the last report generator returned
    cart           \* table CartItem: the rows of the customer, id = index

vars == <<accounts, journals, details, now, initialised, ret, generated, pc, sess, lock, prior,
          products, orders, report, cart>>

----------------------------------------------------------------------------
(* Bounds of the model *)

MaxJournals == 2
MaxClock == 1
MaxGenerated == 3
MaxOrders == 1
MaxShopJournals == 3
MaxTemplateJournals == 1
MaxCartQuantity == 2
MaxProducts == 3

----------------------------------------------------------------------------
(* Strings.  Python compares and concatenates strings by their characters; *)
(* Spelling gives the characters of each string the model uses.            *)

Spelling ==
    [ kas |-> <<"k","a","s">>,
      kas2 |-> <<"k","a","s","2">>,
      piutang |-> <<"p","i","u","t","a","n","g">>,
      persediaan |-> <<"p","e","r","s","e","d","i","a","a","n">>,
      perlengkapan |-> <<"p","e","r","l","e","n","g","k","a","p","a","n">>,
      peralatan |-> <<"p","e","r","a","l","a","t","a","n">>,
      akumulasi_penyusutan |-> <<"a","k","u","m","u","l","a","s","i","_","p","e","n","y","u","s","u","t","a","n">>,
      hutang |-> <<"h","u","t","a","n","g">>,
      modal |-> <<"m","o","d","a","l">>,
      prive |-> <<"p","r","i","v","e">>,
      pendapatan |-> <<"p","e","n","d","a","p","a","t","a","n">>,
      hpp |-> <<"h","p","p">>,
      beban_gaji |-> <<"b","e","b","a","n","_","g","a","j","i">>,
      beban_listrik |-> <<"b","e","b","a","n","_","l","i","s","t","r","i","k">>,
      beban_perlengkapan |-> <<"b","e","b","a","n","_","p","e","r","l","e","n","g","k","a","p","a","n">>,
      beban_penyusutan |-> <<"b","e","b","a","n","_","p","e","n","y","u","s","u","t","a","n">>,
      beban_transport |-> <<"b","e","b","a","n","_","t","r","a","n","s","p","o","r","t">>,
      beban_operasional |-> <<"b","e","b","a","n","_","o","p","e","r","a","s","i","o","n","a","l">>,
      beban_kerugian |-> <<"b","e","b","a","n","_","k","e","r","u","g","i","a","n">>,
      beban_lain |-> <<"b","e","b","a","n","_","l","a","i","n">>,
      ORD |-> <<"O","R","D">>,
      TRX |-> <<"T","R","X">>,
      SALES |-> <<"S","A","L","E","S">>,
      SALDO |-> <<"S","A","L","D","O">> ]

\* str.startswith(prefix)
startswith(s, prefix) ==
    LET a == Spelling[s]
        b == Spelling[prefix]
    IN  /\ Len(b) <= Len(a)
        /\ SubSeq(a, 1, Len(b)) = b

DigitChars == <<"0","1","2","3","4","5","6","7","8","9">>

\* "%02d" of a number below 100
TwoDigits(n) == <<DigitChars[(n \div 10) + 1], DigitChars[(n % 10) + 1]>>

\* str() of a number in 100..999
ThreeDigits(n) ==
    <<DigitChars[(n \div 100) + 1], DigitChars[((n \div 10) % 10) + 1], DigitChars[(n % 10) + 1]>>

\* strftime('%Y%m%d%H%M') of t: the timestamp without its seconds
strftime_minutes(t) ==
    <<"2","0","2","5","0","1","0","1">>
        \o TwoDigits(t \div 3600) \o TwoDigits((t \div 60) % 60)

\* strftime('%Y%m%d%H%M%S') of the clock value t (t seconds after
\* 2025-01-01 00:00:00, within that day)
strftime(t) ==
    <<"2","0","2","5","0","1","0","1">>
        \o TwoDigits(t \div 3600) \o TwoDigits((t \div 60) % 60) \o TwoDigits(t % 60)

\* random.randint(100, 999)
RandLo == 100
RandHi == 999
RandInputs == {RandLo, RandLo + 1, RandHi}

generate_unique_transaction_number(prefix, t, random_num) ==
    Spelling[prefix] \o strftime(t) \o ThreeDigits(random_num)

----------------------------------------------------------------------------
(* The chart of accounts that create_initial_data seeds *)

Acc(code, name, type, category, balance) ==
    [code |-> code, name |-> name, type |-> type, category |-> category, balance |-> balance]

SeedAccounts ==
    << Acc("101", "Kas", "kas", "asset", 10000000),
       Acc("102", "Piutang Usaha", "piutang", "asset", 0),
       Acc("103", "Persediaan Barang Dagang", "persediaan", "asset", 5000000),
       Acc("104", "Perlengkapan Toko", "perlengkapan", "asset", 6500000),
       Acc("105", "Peralatan Toko", "peralatan", "asset", 5000000),
       Acc("106", "Akumulasi Penyusutan", "akumulasi_penyusutan", "asset", 0),
       Acc("201", "Utang Dagang", "hutang", "liability", 20000000),
       Acc("301", "Modal", "modal", "equity", 0),
       Acc("302", "Prive", "prive", "equity", 0),
       Acc("401", "Pendapatan Penjualan", "pendapatan", "revenue", 6500000),
       Acc("501", "Harga Pokok Penjualan", "hpp", "expense", 0),
       Acc("502", "Beban Gaji", "beban_gaji", "expense", 0),
       Acc("503", "Beban Listrik dan Air", "beban_listrik", "expense", 0),
       Acc("504", "Beban Perlengkapan", "beban_perlengkapan", "expense", 0),
       Acc("505", "Beban Penyusutan", "beban_penyusutan", "expense", 0),
       Acc("506", "Beban Transportasi", "beban_transport", "expense", 0),
       Acc("507", "Beban Operasional", "beban_operasional", "expense", 0),
       Acc("520", "Beban Kerugian", "beban_kerugian", "expense", 0),
       Acc("529", "Beban Lain-lain", "beban_lain", "expense", 0) >>

\* A database that already holds the two accounts Kas and Pendapatan with a
\* zero balance (create_initial_data seeds only an empty Account table)
ScenarioAccounts ==
    << Acc("101", "Kas", "kas", "asset", 0),
       Acc("401", "Pendapatan", "pendapatan", "revenue", 0) >>

\* The lines of the opening journal of create_initial_journals
OpeningEntries ==
    << [account_type |-> "kas", debit |-> 10000000, credit |-> 0],
       [account_type |-> "persediaan", debit |-> 5000000, credit |-> 0],
       [account_type |-> "peralatan", debit |-> 5000000, credit |-> 0],
       [account_type |-> "perlengkapan", debit |-> 6500000, credit |-> 0],
       [account_type |-> "pendapatan", debit |-> 0, credit |-> 6500000],
       [account_type |-> "hutang", debit |-> 0, credit |-> 20000000] >>

----------------------------------------------------------------------------
(* The database: the three tables as one value *)

Db == [accounts |-> accounts, journals |-> journals, details |-> details]

\* dict.get(key, 0)
Get(d, key) == IF key \in DOMAIN d THEN d[key] ELSE 0

\* db.session.get(Account, id): the row, when there is one
HasAccount(accts, id) == id \in 1..Len(accts)

\* JournalEntry.query.filter_by(transaction_number=...).first() is not None
NumberExists(jrnls, number) ==
    \E i \in 1..Len(jrnls) : jrnls[i].transaction_number = number

\* The delta line `entry` adds to the balance of an account of `category`
\* (create_journal_entry, "Update account balance")
BalanceDeltaSwapped(category, entry) ==
    IF category \in {"asset", "expense"}
    THEN Get(entry, "credit") - Get(entry, "debit")
    ELSE Get(entry, "debit") - Get(entry, "credit")

\* A delta that takes every account as debit-normal
BalanceDeltaDebitNormal(category, entry) ==
    Get(entry, "debit") - Get(entry, "credit")

BalanceDelta(category, entry) ==
    IF category \in {"asset", "expense"}
    THEN Get(entry, "debit") - Get(entry, "credit")
    ELSE Get(entry, "credit") - Get(entry, "debit")

\* account.balance += delta, on the session's copy of the accounts
UpdateBalance(accts, entry) ==
    LET id == entry.account_id
    IN  IF HasAccount(accts, id)
        THEN [accts EXCEPT ![id].balance = @ + BalanceDelta(accts[id].category, entry)]
        ELSE accts

\* A JournalDetail that stores the line's amount in both columns
NewDetailBothColumns(journal_id, entry) ==
    [journal_id |-> journal_id, account_id |-> entry.account_id,
     debit |-> Get(entry, "debit") + Get(entry, "credit"),
     credit |-> Get(entry, "debit") + Get(entry, "credit")]

\* transaction_number = db.Column(db.String(20), unique=True)
TransactionNumberLength == 20

\* JournalDetail(journal_id=..., account_id=..., debit=..., credit=...)
NewDetail(journal_id, entry) ==
    [journal_id |-> journal_id, account_id |-> entry.account_id,
     debit |-> Get(entry, "debit"), credit |-> Get(entry, "credit")]

\* The loop over the entries: each line adds a JournalDetail to the session
\* and updates the balance of its account; a line without 'account_id'
\* raises KeyError and ends the loop.
RECURSIVE ApplyEntries(_, _, _, _)
ApplyEntries(accts, dets, journal_id, entries) ==
    IF entries = <<>>
    THEN [accounts |-> accts, details |-> dets, raised |-> FALSE]
    ELSE LET entry == Head(entries)
         IN  IF "account_id" \notin DOMAIN entry
             THEN [accounts |-> accts, details |-> dets, raised |-> TRUE]
             ELSE ApplyEntries(UpdateBalance(accts, entry),
                               Append(dets, NewDetail(journal_id, entry)),
                               journal_id, Tail(entries))

\* db.session.rollback(): the session's pending changes are dropped
RollbackKeepsPending(committed, pending) == pending

Rollback(committed, pending) == committed

\* create_journal_entry(transaction_number, date, description, journal_type,
\* entries) on database db.  fresh is the number that
\* generate_unique_transaction_number() returns when the given one exists;
\* commit_fails tells whether db.session.commit() raises.
\* The result: the database afterwards, whether the call raised (and what),
\* and the id of the journal returned.
create_journal_entry(db, transaction_number, fresh, date, description, journal_type, entries, commit_fails) ==
    LET existing == NumberExists(db.journals, transaction_number)
        number == IF existing THEN fresh ELSE transaction_number
        journal_id == Len(db.journals) + 1
        journal == [transaction_number |-> number, date |-> date,
                    description |-> description, journal_type |-> journal_type]
        flushed == [db EXCEPT !.journals = Append(@, journal)]
        loop == ApplyEntries(db.accounts, db.details, journal_id, entries)
        pending == [flushed EXCEPT !.accounts = loop.accounts, !.details = loop.details]
    IN  IF NumberExists(db.journals, number)
        THEN \* flush: UNIQUE constraint of JournalEntry.transaction_number
             [db |-> Rollback(db, flushed), raised |-> "IntegrityError",
              existing |-> existing, journal |-> 0]
        ELSE IF loop.raised
        THEN [db |-> Rollback(db, pending), raised |-> "KeyError",
              existing |-> existing, journal |-> 0]
        ELSE IF commit_fails
        THEN [db |-> Rollback(db, pending), raised |-> "OperationalError",
              existing |-> existing, journal |-> 0]
        ELSE [db |-> pending, raised |-> "",
              existing |-> existing, journal |-> journal_id]

----------------------------------------------------------------------------
(* The template catalogue *)

Dr(account_type) == [account_type |-> account_type, side |-> "debit"]
Cr(account_type) == [account_type |-> account_type, side |-> "credit"]

TRANSACTION_TEMPLATES ==
    [ saldo_awal |-> [description |-> "Pencatatan saldo awal usaha Kang-Mas Shop",
          entries |-> <<Dr("kas"), Dr("persediaan"), Dr("peralatan"), Dr("perlengkapan"), Cr("pendapatan"), Cr("hutang")>>],
      setoran_modal |-> [description |-> "Kas diterima dari pemilik sebagai modal awal",
          entries |-> <<Dr("kas"), Cr("modal")>>],
      pembelian_peralatan_kredit |-> [description |-> "Dibeli beberapa peralatan untuk budidaya ikan secara kredit",
          entries |-> <<Dr("peralatan"), Cr("hutang")>>],
      pembelian_perlengkapan_tunai |-> [description |-> "Dibeli kebutuhan perlengkapan budidaya ikan mas secara tunai",
          entries |-> <<Dr("perlengkapan"), Cr("kas")>>],
      pembelian_bibit_campur |-> [description |-> "Dibeli 2.000 ekor bibit ikan mas (1.500 tunai, 500 kredit)",
          entries |-> <<Dr("persediaan"), Cr("kas"), Cr("hutang")>>],
      pelunasan_utang_peralatan |-> [description |-> "Membayar faktur pembelian dari Toko Abc",
          entries |-> <<Dr("hutang"), Cr("kas")>>],
      pelunasan_utang_bibit |-> [description |-> "Membayar faktur pembelian bibit dari pengepul",
          entries |-> <<Dr("hutang"), Cr("kas")>>],
      pembelian_peralatan_tunai |-> [description |-> "Pembelian baskom, sortir, serokan secara tunai",
          entries |-> <<Dr("peralatan"), Cr("kas")>>],
      pembelian_obat_ikan |-> [description |-> "Pembelian obat pencegah penyakit ikan",
          entries |-> <<Dr("perlengkapan"), Cr("kas")>>],
      biaya_listrik |-> [description |-> "Pembayaran biaya listrik bulanan",
          entries |-> <<Dr("beban_listrik"), Cr("kas")>>],
      penjualan_bibit_kredit |-> [description |-> "Penjualan bibit ikan secara kredit",
          entries |-> <<Dr("piutang"), Cr("pendapatan")>>],
      penerimaan_piutang |-> [description |-> "Penerimaan pembayaran piutang dagang",
          entries |-> <<Dr("kas"), Cr("piutang")>>],
      penjualan_ikan_tunai |-> [description |-> "Penjualan ikan mas konsumsi secara tunai",
          entries |-> <<Dr("kas"), Cr("pendapatan")>>],
      biaya_air |-> [description |-> "Pembayaran biaya air bulanan",
          entries |-> <<Dr("beban_listrik"), Cr("kas")>>],
      kerugian_ikan_mati |-> [description |-> "Kerugian akibat ikan mati tidak bisa dijual",
          entries |-> <<Dr("beban_kerugian"), Cr("persediaan")>>],
      biaya_reparasi |-> [description |-> "Biaya reparasi kendaraan operasional",
          entries |-> <<Dr("beban_lain"), Cr("kas")>>],
      penjualan_bibit_tunai |-> [description |-> "Penjualan bibit ikan mas secara tunai",
          entries |-> <<Dr("kas"), Cr("pendapatan")>>],
      penjualan_dengan_pengiriman |-> [description |-> "Penjualan bibit dengan biaya pengiriman ditanggung penjual",
          entries |-> <<Dr("kas"), Cr("pendapatan"), Dr("beban_transport"), Cr("kas")>>],
      pembelian_bibit_tunai |-> [description |-> "Pembelian bibit ikan mas tambahan secara tunai",
          entries |-> <<Dr("persediaan"), Cr("kas")>>],
      penjualan_ikan_ongkir |-> [description |-> "Penjualan ikan mas tunai dengan ongkir ditanggung pembeli",
          entries |-> <<Dr("kas"), Cr("pendapatan")>>],
      kerugian_hibah |-> [description |-> "Kerugian akibat pemberian bibit ke saudara",
          entries |-> <<Dr("beban_kerugian"), Cr("persediaan")>>],
      pembelian_perlengkapan_peralatan |-> [description |-> "Pembelian perlengkapan dan peralatan secara tunai",
          entries |-> <<Dr("perlengkapan"), Dr("peralatan"), Cr("kas")>>],
      penyusutan_peralatan |-> [description |-> "Penyusutan peralatan bulanan",
          entries |-> <<Dr("beban_penyusutan"), Cr("akumulasi_penyusutan")>>],
      pemakaian_perlengkapan |-> [description |-> "Pemakaian perlengkapan bulanan",
          entries |-> <<Dr("beban_perlengkapan"), Cr("perlengkapan")>>] ]

\* accounts_map: the id of the last account of the given type
\* (for account in Account.query.all(): accounts_map[account.type] = account.id)
InAccountsMap(accts, account_type) ==
    \E i \in 1..Len(accts) : accts[i].type = account_type

accounts_map(accts, account_type) ==
    CHOOSE i \in 1..Len(accts) :
        /\ accts[i].type = account_type
        /\ \A j \in 1..Len(accts) : accts[j].type = account_type => j <= i

\* amounts is an ordered map (a JSON object): a sequence of <<key, value>>
\* with distinct keys.  amounts.get(key, 0):
AmountsGet(amounts, key) ==
    IF \E i \in 1..Len(amounts) : amounts[i][1] = key
    THEN amounts[CHOOSE i \in 1..Len(amounts) : amounts[i][1] = key][2]
    ELSE 0

\* The amount of a line looked up by the name of its account type only
LineAmountByName(amounts, amount_index, account_type) ==
    [amount |-> AmountsGet(amounts, account_type), index |-> amount_index]

\* The amount of one template line and the amount_index after it
LineAmount(amounts, amount_index, account_type) ==
    IF amount_index < Len(amounts)
    THEN IF startswith(amounts[amount_index + 1][1], account_type)
         THEN [amount |-> amounts[amount_index + 1][2], index |-> amount_index + 1]
         ELSE [amount |-> AmountsGet(amounts, account_type), index |-> amount_index]
    ELSE [amount |-> AmountsGet(amounts, account_type), index |-> amount_index]

\* The loop with accounts_map[account_type] looked up for every line: a
\* line whose account type is not mapped raises KeyError
RECURSIVE TemplateEntriesRaising(_, _, _, _)
TemplateEntriesRaising(accts, lines, amounts, amount_index) ==
    IF lines = <<>> THEN <<>>
    ELSE LET line == Head(lines)
             a == LineAmount(amounts, amount_index, line.account_type)
             rest == TemplateEntriesRaising(accts, Tail(lines), amounts, a.index)
         IN  IF InAccountsMap(accts, line.account_type)
             THEN << IF line.side = "debit"
                     THEN [account_id |-> accounts_map(accts, line.account_type),
                           debit |-> a.amount, credit |-> 0]
                     ELSE [account_id |-> accounts_map(accts, line.account_type),
                           debit |-> 0, credit |-> a.amount] >> \o rest
             ELSE << [debit |-> 0, credit |-> 0] >> \o rest

\* The loop over template['entries'] that builds the journal's entries
RECURSIVE TemplateEntries(_, _, _, _)
TemplateEntries(accts, lines, amounts, amount_index) ==
    IF lines = <<>> THEN <<>>
    ELSE LET line == Head(lines)
             a == LineAmount(amounts, amount_index, line.account_type)
             rest == TemplateEntries(accts, Tail(lines), amounts, a.index)
         IN  IF InAccountsMap(accts, line.account_type)
             THEN << IF line.side = "debit"
                     THEN [account_id |-> accounts_map(accts, line.account_type),
                           debit |-> a.amount, credit |-> 0]
                     ELSE [account_id |-> accounts_map(accts, line.account_type),
                           debit |-> 0, credit |-> a.amount] >> \o rest
             ELSE rest

\* A create_journal_from_template without the try/except: the journal is
\* posted as far as create_journal_entry got, and the failure leaves the
\* pending journal behind
create_journal_from_template_unguarded(db, template_key, date, amounts, number, fresh, commit_fails) ==
    LET known == template_key \in DOMAIN TRANSACTION_TEMPLATES
        template == TRANSACTION_TEMPLATES[IF known THEN template_key ELSE "setoran_modal"]
        entries == TemplateEntries(db.accounts, template.entries, amounts, 0)
        r == create_journal_entry(db, number, fresh, date, template.description,
                                  "general", entries, FALSE)
    IN  [db |-> r.db, journal |-> r.journal,
         error |-> IF ~known THEN "KeyError"
                   ELSE IF commit_fails THEN "OperationalError" ELSE r.raised,
         existing |-> r.existing]

\* create_journal_from_template(template_key, date, amounts): the database
\* afterwards and the journal returned (0: None).  number and fresh are the
\* results of the calls of generate_unique_transaction_number().
create_journal_from_template(db, template_key, date, amounts, number, fresh, commit_fails) ==
    IF template_key \notin DOMAIN TRANSACTION_TEMPLATES
    THEN [db |-> db, journal |-> 0, error |-> "KeyError", existing |-> FALSE]
    ELSE LET template == TRANSACTION_TEMPLATES[template_key]
             entries == TemplateEntries(db.accounts, template.entries, amounts, 0)
             r == create_journal_entry(db, number, fresh, date, template.description,
                                       "general", entries, commit_fails)
         IN  [db |-> r.db, journal |-> r.journal, error |-> r.raised,
              existing |-> r.existing]

\* datetime(2025, 1, 1), the date of the opening journal
OpeningDate == 0

\* create_initial_journals(): posts the opening journal when there is no
\* journal yet; an exception is printed, not raised
RECURSIVE InitialEntries(_, _)
InitialEntries(accts, lines) ==
    IF lines = <<>> THEN <<>>
    ELSE LET line == Head(lines)
             rest == InitialEntries(accts, Tail(lines))
         IN  IF InAccountsMap(accts, line.account_type)
             THEN << [account_id |-> accounts_map(accts, line.account_type),
                      debit |-> line.debit, credit |-> line.credit] >> \o rest
             ELSE rest

create_initial_journals(db, number, fresh, commit_fails) ==
    IF Len(db.journals) > 0
    THEN db
    ELSE LET entries == InitialEntries(db.accounts, OpeningEntries)
         IN  IF entries = <<>>
             THEN db
             ELSE create_journal_entry(db, number, fresh, OpeningDate,
                      "Pencatatan saldo awal usaha Kang-Mas Shop",
                      "opening_balance", entries, commit_fails).db

\* create_initial_data(): seeds the chart of accounts into an empty Account
\* table, commits, then calls create_initial_journals()
create_initial_data(db, number, fresh, commit_fails) ==
    LET seeded == IF Len(db.accounts) = 0
                  THEN [db EXCEPT !.accounts = SeedAccounts]
                  ELSE db
    IN  create_initial_journals(seeded, number, fresh, commit_fails)

----------------------------------------------------------------------------
(* Reports *)

\* abs()
Abs(x) == IF x < 0 THEN 0 - x ELSE x

\* get_trial_balance(): one row per account, the balance in the debit column
\* when it is >= 0 and its absolute value in the credit column otherwise
TrialBalanceRow(account) ==
    IF account.balance >= 0
    THEN [code |-> account.code, debit |-> account.balance, credit |-> 0]
    ELSE [code |-> account.code, debit |-> 0, credit |-> Abs(account.balance)]

RECURSIVE SumField(_, _)
SumField(rows, field) ==
    IF rows = <<>> THEN 0 ELSE Head(rows)[field] + SumField(Tail(rows), field)

get_trial_balance(accts) ==
    LET rows == [i \in 1..Len(accts) |-> TrialBalanceRow(accts[i])]
    IN  [rows |-> rows,
         total_debit |-> SumField(rows, "debit"),
         total_credit |-> SumField(rows, "credit")]

\* Account.query.filter_by(category=...).all()
ByCategory(accts, category) == SelectSeq(accts, LAMBDA a : a.category = category)

\* sum(acc.balance for acc in accts)
RECURSIVE SumBalances(_)
SumBalances(accts) ==
    IF accts = <<>> THEN 0 ELSE Head(accts).balance + SumBalances(Tail(accts))

\* sum(acc.balance for acc in accts if acc.balance > 0)
SumPositiveBalances(accts) == SumBalances(SelectSeq(accts, LAMBDA a : a.balance > 0))

\* get_balance_sheet(): the totals it prints and the "Neraca Seimbang" flag.
\* total_equity is increased by net_income before the right-hand side
\* total_liabilities + total_equity + net_income is formed.
get_balance_sheet(accts) ==
    LET total_assets == SumPositiveBalances(ByCategory(accts, "asset"))
        total_liabilities == SumPositiveBalances(ByCategory(accts, "liability"))
        equity_balances == SumPositiveBalances(ByCategory(accts, "equity"))
        total_revenue == SumBalances(ByCategory(accts, "revenue"))
        total_expenses == SumBalances(ByCategory(accts, "expense"))
        net_income == total_revenue - total_expenses
        total_equity == equity_balances + net_income
        right_side == total_liabilities + total_equity + net_income
    IN  [total_assets |-> total_assets,
         total_liabilities |-> total_liabilities,
         total_equity |-> total_equity,
         net_income |-> net_income,
         right_side |-> right_side,
         balanced |-> (total_assets = right_side)]

\* get_income_statement(): the totals it prints
get_income_statement(accts) ==
    LET total_revenue == SumBalances(ByCategory(accts, "revenue"))
        total_expenses == SumBalances(ByCategory(accts, "expense"))
    IN  [total_revenue |-> total_revenue,
         total_expenses |-> total_expenses,
         net_income |-> total_revenue - total_expenses]

\* get_cash_flow_statement(): the totals it prints
get_cash_flow_statement(accts) ==
    LET cash == SelectSeq(accts, LAMBDA a : a.type = "kas")
        operating_inflows == SumBalances(ByCategory(accts, "revenue"))
        operating_outflows == SumBalances(ByCategory(accts, "expense"))
    IN  [cash_balance |-> IF cash = <<>> THEN 0 ELSE cash[1].balance,
         operating_inflows |-> operating_inflows,
         operating_outflows |-> operating_outflows,
         net_cash_operating |-> operating_inflows - operating_outflows]

\* The dashboard's net income without the expenses
calculate_net_income_gross(accts) ==
    LET revenue_account == SelectSeq(accts, LAMBDA a : a.type = "pendapatan")
    IN  IF revenue_account = <<>> THEN 0 ELSE revenue_account[1].balance

\* calculate_net_income(): the balance of the first account of type
\* 'pendapatan' minus the balances of the expense accounts
calculate_net_income(accts) ==
    LET revenue_account == SelectSeq(accts, LAMBDA a : a.type = "pendapatan")
        revenue == IF revenue_account = <<>> THEN 0 ELSE revenue_account[1].balance
        expenses == SumBalances(ByCategory(accts, "expense"))
    IN  revenue - expenses

\* The rows get_ledger_data prints for one account: its JournalDetail rows
\* in the order of JournalDetail.journal_id, each with the date of its
\* journal and the running balance
RECURSIVE LedgerRows(_, _, _, _)
LedgerRows(category, jrnls, rows, running_balance) ==
    IF rows = <<>> THEN <<>>
    ELSE LET detail == Head(rows)
             balance == running_balance + BalanceDelta(category, detail)
         IN  << [date |-> jrnls[detail.journal_id].date, debit |-> detail.debit,
                 credit |-> detail.credit, running_balance |-> balance] >>
             \o LedgerRows(category, jrnls, Tail(rows), balance)

\* get_ledger_data(): for each account that has JournalDetail rows, in the
\* order of the account codes (the ids ascend with the codes), its rows
\* and the stored balance printed (as an absolute value) as "Saldo Akhir"
get_ledger_data(accts, jrnls, dets) ==
    LET with_transactions ==
            SelectSeq([i \in 1..Len(accts) |-> i],
                      LAMBDA i : \E k \in 1..Len(dets) : dets[k].account_id = i)
    IN  [n \in 1..Len(with_transactions) |->
            LET id == with_transactions[n]
            IN  [account_id |-> id, saldo_akhir |-> accts[id].balance,
                 rows |-> LedgerRows(accts[id].category, jrnls,
                              SelectSeq(dets, LAMBDA d : d.account_id = id), 0)]]

----------------------------------------------------------------------------
(* Products and stock *)

\* The characters of the product names and descriptions and of the journal
\* descriptions that update_stock_from_journal compares
Chars ==
    ("Bibit Ikan Mas" :>
        <<"B", "i", "b", "i", "t", " ", "I", "k", "a", "n", " ", "M", "a", "s">>) @@
    ("Bibit ikan mas segar ukuran 8cm, kualitas terbaik untuk pembesaran" :>
        <<"B", "i", "b", "i", "t", " ", "i", "k", "a", "n", " ", "m", "a", "s", " ", "s", "e", "g", "a", "r", " ", "u", "k", "u", "r", "a", "n", " ", "8", "c", "m", ",", " ", "k", "u", "a", "l", "i", "t", "a", "s", " ", "t", "e", "r", "b", "a", "i", "k", " ", "u", "n", "t", "u", "k", " ", "p", "e", "m", "b", "e", "s", "a", "r", "a", "n">>) @@
    ("Ikan Mas Konsumsi" :>
        <<"I", "k", "a", "n", " ", "M", "a", "s", " ", "K", "o", "n", "s", "u", "m", "s", "i">>) @@
    ("Ikan mas segar siap konsumsi, berat 1kg" :>
        <<"I", "k", "a", "n", " ", "m", "a", "s", " ", "s", "e", "g", "a", "r", " ", "s", "i", "a", "p", " ", "k", "o", "n", "s", "u", "m", "s", "i", ",", " ", "b", "e", "r", "a", "t", " ", "1", "k", "g">>) @@
    ("Pembelian bibit ikan mas tambahan secara tunai" :>
        <<"P", "e", "m", "b", "e", "l", "i", "a", "n", " ", "b", "i", "b", "i", "t", " ", "i", "k", "a", "n", " ", "m", "a", "s", " ", "t", "a", "m", "b", "a", "h", "a", "n", " ", "s", "e", "c", "a", "r", "a", " ", "t", "u", "n", "a", "i">>) @@
    ("Pembayaran biaya listrik bulanan" :>
        <<"P", "e", "m", "b", "a", "y", "a", "r", "a", "n", " ", "b", "i", "a", "y", "a", " ", "l", "i", "s", "t", "r", "i", "k", " ", "b", "u", "l", "a", "n", "a", "n">>) @@
    ("Stok: PEMBELIAN BIBIT IKAN MAS TAMBAHAN SECARA TUNAI" :>
        <<"S", "t", "o", "k", ":", " ", "P", "E", "M", "B", "E", "L", "I", "A", "N", " ", "B", "I", "B", "I", "T", " ", "I", "K", "A", "N", " ", "M", "A", "S", " ", "T", "A", "M", "B", "A", "H", "A", "N", " ", "S", "E", "C", "A", "R", "A", " ", "T", "U", "N", "A", "I">>) @@
    ("Bibit pilihan" :>
        <<"B", "i", "b", "i", "t", " ", "p", "i", "l", "i", "h", "a", "n">>)

LowerChar ==
    ("A" :> "a") @@ ("B" :> "b") @@ ("C" :> "c") @@ ("D" :> "d") @@ ("E"
    :> "e") @@ ("F" :> "f") @@ ("G" :> "g") @@ ("H" :> "h") @@ ("I" :>
    "i") @@ ("J" :> "j") @@ ("K" :> "k") @@ ("L" :> "l") @@ ("M" :> "m")
    @@ ("N" :> "n") @@ ("O" :> "o") @@ ("P" :> "p") @@ ("Q" :> "q") @@
    ("R" :> "r") @@ ("S" :> "s") @@ ("T" :> "t") @@ ("U" :> "u") @@ ("V"
    :> "v") @@ ("W" :> "w") @@ ("X" :> "x") @@ ("Y" :> "y") @@ ("Z" :>
    "z")

\* lower(): what ILIKE applies to both sides
Lower(s) == [i \in 1..Len(s) |-> IF s[i] \in DOMAIN LowerChar THEN LowerChar[s[i]] ELSE s[i]]

\* text ILIKE '%pattern%' (the patterns hold neither % nor _)
ilike(text, pattern) ==
    LET t == Lower(Chars[text])
        q == Lower(Chars[pattern])
    IN  \E i \in 0..(Len(t) - Len(q)) : SubSeq(t, i + 1, i + Len(q)) = q

\* The products create_initial_data adds to an empty Product table
SeedProducts ==
    << [name |-> "Bibit Ikan Mas",
        description |-> "Bibit ikan mas segar ukuran 8cm, kualitas terbaik untuk pembesaran",
        price |-> 2000, cost_price |-> 1000, stock |-> 1000],
       [name |-> "Ikan Mas Konsumsi",
        description |-> "Ikan mas segar siap konsumsi, berat 1kg",
        price |-> 30000, cost_price |-> 20000, stock |-> 50] >>

\* Product.query.filter(name ILIKE ... | description ILIKE ...).first():
\* the id of the first matching product, 0 when there is none
FirstProduct(prods, product_name) ==
    LET matching == { i \in 1..Len(prods) :
                        \/ ilike(prods[i].name, product_name)
                        \/ ilike(prods[i].description, product_name) }
    IN  IF matching = {} THEN 0
        ELSE CHOOSE i \in matching : \A j \in matching : i <= j

\* The quotient rounded down
FloorQuotient(a, b) ==
    LET q == Abs(a) \div Abs(b)
    IN  IF (a >= 0) = (b > 0) THEN q
        ELSE IF q * Abs(b) = Abs(a) THEN 0 - q ELSE 0 - q - 1

\* int(a / b) for b # 0: the quotient truncated toward zero
Quotient(a, b) ==
    LET q == Abs(a) \div Abs(b)
    IN  IF (a >= 0) = (b > 0) THEN q ELSE 0 - q

\* The loop of update_stock_from_journal over the journal's details, on the
\* session's products; raised: the division raised ZeroDivisionError
RECURSIVE StockLoop(_, _, _, _)
StockLoop(accts, prods, rows, product_name) ==
    IF rows = <<>>
    THEN [products |-> prods, raised |-> FALSE]
    ELSE LET detail == Head(rows)
             product == FirstProduct(prods, product_name)
         IN  IF accts[detail.account_id].type = "persediaan" /\ detail.debit > 0
                /\ product # 0
             THEN IF prods[product].cost_price = 0
                  THEN [products |-> prods, raised |-> TRUE]
                  ELSE StockLoop(accts,
                           [prods EXCEPT ![product].stock =
                               @ + Quotient(detail.debit, prods[product].cost_price)],
                           Tail(rows), product_name)
             ELSE StockLoop(accts, prods, Tail(rows), product_name)

\* update_stock_from_journal(journal_entry): the Product table afterwards.
\* An exception is printed and nothing is committed.
update_stock_from_journal(db, prods, journal_id) ==
    LET rows == SelectSeq(db.details, LAMBDA d : d.journal_id = journal_id)
        loop == StockLoop(db.accounts, prods, rows, db.journals[journal_id].description)
    IN  IF loop.raised THEN prods ELSE loop.products

----------------------------------------------------------------------------
(* Inputs of the requests *)

\* Entry lists handed to create_journal_entry.  Account 1 is Kas; account 2
\* is Piutang (asset) in the seeded chart and Pendapatan (revenue) in the
\* two-account database; account 10 is Pendapatan in the seeded chart and
\* missing in the two-account database.  Some dicts leave out the optional
\* keys, one leaves out 'account_id'.
EntryInputs ==
    { <<>>,
      << [account_id |-> 1, debit |-> 50000, credit |-> 0],
         [account_id |-> 2, debit |-> 0, credit |-> 50000] >>,
      << [account_id |-> 1, debit |-> 50000, credit |-> 0],
         [account_id |-> 1, credit |-> 20000],
         [account_id |-> 1, debit |-> 10000, credit |-> 0] >>,
      << [account_id |-> 2, debit |-> 20000],
         [account_id |-> 10, debit |-> 0, credit |-> 50000],
         [account_id |-> 2, debit |-> 0, credit |-> 10000] >>,
      << [account_id |-> 10, debit |-> 20000, credit |-> 50000] >>,
      << [account_id |-> 1, debit |-> 50000, credit |-> 0],
         [debit |-> 0, credit |-> 50000] >> }

TemplateKeyInputs ==
    {"setoran_modal", "penjualan_dengan_pengiriman", "tidak_ada"}

\* Ordered amounts maps: the keys in the order the caller gave them
AmountsInputs ==
    { << <<"kas", 1000000>> >>,
      << <<"kas", 1000000>>, <<"modal", 1000000>> >>,
      << <<"modal", 500000>>, <<"kas", 1000000>> >>,
      << <<"kas", 100000>>, <<"pendapatan", 100000>>,
         <<"beban_transport", 15000>>, <<"kas2", 12000>> >> }

----------------------------------------------------------------------------
(* The state machine *)

NoCall == [op |-> "", raised |-> "", error |-> "", journal |-> 0, existing |-> FALSE,
           template_key |-> "", amounts |-> <<>>, success |-> FALSE, message |-> ""]

Procs == {1, 2}

\* No report generator has been called
NoReport == [op |-> "", value |-> 0, error |-> FALSE]

\* The date of datetime t (days since 2025-01-01)
Today(t) == t \div 86400

IdleSession == [loaded |-> FALSE, accounts |-> <<>>, dirty |-> {}, number |-> <<>>,
                journal_id |-> 0, details |-> <<>>, line |-> 0]

\* The database when the application starts: empty (reset_database_safe
\* dropped and created the tables), or an existing one that holds the accounts
\* Kas and Pendapatan with a zero balance
Init ==
    /\ accounts \in {<<>>, ScenarioAccounts}
    /\ journals = <<>>
    /\ details = <<>>
    /\ now = 0
    /\ initialised = FALSE
    /\ ret = NoCall
    /\ generated = <<>>
    /\ pc = [p \in Procs |-> "idle"]
    /\ sess = [p \in Procs |-> IdleSession]
    /\ lock = 0
    /\ prior = <<>>
    /\ products = <<>>
    /\ orders = <<>>
    /\ report = NoReport
    /\ cart = <<>>

Idle == UNCHANGED <<generated, pc, sess, lock, prior>>

\* No shop route and no report generator runs
ShopIdle == UNCHANGED <<products, orders, report, cart>>

\* Requests are served once the database holds accounts
Serving == Len(accounts) > 0

\* The clock advances by a second
Tick ==
    /\ now < MaxClock
    /\ now' = now + 1
    /\ UNCHANGED <<accounts, journals, details, initialised, ret>>
    /\ Idle
    /\ ShopIdle

\* __main__: create_initial_data()
CreateInitialData ==
    /\ ~initialised
    /\ \E commit_fails \in BOOLEAN :
        LET number == generate_unique_transaction_number("SALDO", now, RandLo)
            fresh == generate_unique_transaction_number("TRX", now, RandLo)
            db == create_initial_data(Db, number, fresh, commit_fails)
        IN  /\ accounts' = db.accounts
            /\ journals' = db.journals
            /\ details' = db.details
    /\ products' = IF Len(products) = 0 THEN SeedProducts ELSE products
    /\ initialised' = TRUE
    /\ ret' = [NoCall EXCEPT !.op = "create_initial_data"]
    /\ UNCHANGED <<now, orders, report, cart>>
    /\ Idle

\* A call of create_journal_entry with a number generated just before
CreateJournalEntry ==
    /\ Serving
    /\ Len(journals) < MaxJournals
    /\ \E entries \in EntryInputs, commit_fails \in BOOLEAN :
        LET number == generate_unique_transaction_number("TRX", now, RandLo)
            fresh == generate_unique_transaction_number("TRX", now, RandLo)
            r == create_journal_entry(Db, number, fresh, Today(now), "Jurnal umum", "general",
                                      entries, commit_fails)
        IN  /\ accounts' = r.db.accounts
            /\ journals' = r.db.journals
            /\ details' = r.db.details
            /\ ret' = [NoCall EXCEPT !.op = "create_journal_entry",
                                      !.raised = r.raised, !.error = r.raised,
                                      !.journal = r.journal, !.existing = r.existing]
    /\ UNCHANGED <<now, initialised>>
    /\ Idle
    /\ ShopIdle

\* A call of create_journal_from_template
CreateJournalFromTemplate ==
    /\ Serving
    /\ Len(journals) < MaxJournals
    /\ \E template_key \in TemplateKeyInputs, amounts \in AmountsInputs,
          commit_fails \in BOOLEAN :
        LET number == generate_unique_transaction_number("TRX", now, RandLo)
            fresh == generate_unique_transaction_number("TRX", now, RandLo)
            r == create_journal_from_template(Db, template_key, Today(now), amounts, number,
                                              fresh, commit_fails)
        IN  /\ accounts' = r.db.accounts
            /\ journals' = r.db.journals
            /\ details' = r.db.details
            /\ ret' = [NoCall EXCEPT !.op = "create_journal_from_template",
                                      !.error = r.error, !.journal = r.journal,
                                      !.existing = r.existing,
                                      !.template_key = template_key,
                                      !.amounts = amounts]
    /\ UNCHANGED <<now, initialised>>
    /\ Idle
    /\ ShopIdle

Next ==
    \/ Tick
    \/ CreateInitialData
    \/ CreateJournalEntry
    \/ CreateJournalFromTemplate

Spec == Init /\ [][Next]_vars

----------------------------------------------------------------------------
(* Properties of the journal engine *)

\* The JournalDetail rows of journal j
RowsOf(j) == SelectSeq(details, LAMBDA d : d.journal_id = j)

RECURSIVE SumRows(_, _)
SumRows(rows, field) ==
    IF rows = <<>> THEN 0 ELSE Head(rows)[field] + SumRows(Tail(rows), field)

\* The signed total of the rows that reference account id, by the sign
\* convention of the account's category
ConventionTotal(category, rows, id) ==
    LET mine == SelectSeq(rows, LAMBDA d : d.account_id = id)
    IN  CASE category \in {"asset", "expense"} ->
                 SumRows(mine, "debit") - SumRows(mine, "credit")
          [] category \in {"liability", "equity", "revenue"} ->
                 SumRows(mine, "credit") - SumRows(mine, "debit")

\* The rows a step adds to JournalDetail
NewRows == SubSeq(details', Len(details) + 1, Len(details'))

\* A step that posts one journal on the accounts that exist
Posting == Len(journals') = Len(journals) + 1 /\ Len(accounts') = Len(accounts)

\* C1: a successfully posted journal changes the balance of every existing
\* account by the signed total of the journal's lines on that account
\* (debit - credit for asset and expense accounts, credit - debit for
\* liability, equity and revenue accounts); several lines on one account add
\* up and an account no line references keeps its balance.
C1_PostingAppliesSignedDeltas ==
    [][ Posting =>
          \A id \in 1..Len(accounts) :
              accounts'[id].balance =
                  accounts[id].balance
                      + ConventionTotal(accounts[id].category, NewRows, id) ]_vars

\* A journal posted by create_journal_entry with several lines on one
\* existing account
C1_Witness ==
    /\ ret.op = "create_journal_entry"
    /\ ret.journal > 0
    /\ \E i, k \in 1..Len(details) :
        /\ i < k
        /\ details[i].journal_id = ret.journal
        /\ details[k].journal_id = ret.journal
        /\ details[i].account_id = details[k].account_id
        /\ HasAccount(accounts, details[i].account_id)

\* C2: when create_journal_entry raises, the three tables are what they
\* were before the call.
C2_FailureLeavesNoTrace ==
    [][ (ret'.op = "create_journal_entry" /\ ret'.raised # "")
            => UNCHANGED <<accounts, journals, details>> ]_vars

\* create_journal_entry raised after it had posted a line (KeyError on a
\* later line), or at the commit
C2_Witness ==
    /\ ret.op = "create_journal_entry"
    /\ ret.raised \in {"KeyError", "OperationalError"}
    /\ Len(accounts) > 0

\* C3: after create_initial_data and any postings, every balance is the
\* signed total of all the JournalDetail rows of the account.
C3_BalanceIsReplayOfDetails ==
    initialised =>
        \A id \in 1..Len(accounts) :
            accounts[id].balance = ConventionTotal(accounts[id].category, details, id)

\* Journal j has total debit = total credit
JournalBalanced(j) == SumRows(RowsOf(j), "debit") = SumRows(RowsOf(j), "credit")

\* C4: every persisted journal has total debit = total credit.
C4_EveryJournalBalanced ==
    \A j \in 1..Len(journals) : JournalBalanced(j)

\* C5: when every posted journal is balanced, the two totals of the trial
\* balance are equal.
C5_TrialBalanceTotalsAgree ==
    (\A j \in 1..Len(journals) : JournalBalanced(j)) =>
        get_trial_balance(accounts).total_debit = get_trial_balance(accounts).total_credit

\* C6: Kas(asset, 0) and Pendapatan(revenue, 0), one journal {debit Kas
\* 50000, credit Pendapatan 50000}: both balances are 50000, the trial
\* balance shows Kas in the debit column and Pendapatan in the credit column.
C6_Scenario ==
    ( /\ Len(accounts) = 2
      /\ Len(journals) = 1
      /\ details = << [journal_id |-> 1, account_id |-> 1, debit |-> 50000, credit |-> 0],
                      [journal_id |-> 1, account_id |-> 2, debit |-> 0, credit |-> 50000] >> )
    => /\ accounts[1].balance = 50000
       /\ accounts[2].balance = 50000
       /\ get_trial_balance(accounts).rows[1] = [code |-> "101", debit |-> 50000, credit |-> 0]
       /\ get_trial_balance(accounts).rows[2] = [code |-> "401", debit |-> 0, credit |-> 50000]

\* C10: template 'setoran_modal' with amounts {kas: 1000000}: either no
\* journal is posted, or the journal posted has no line whose amount is zero.
C10_NoZeroAmountCreditLine ==
    ( /\ ret.op = "create_journal_from_template"
      /\ ret.template_key = "setoran_modal"
      /\ ret.amounts = << <<"kas", 1000000>> >> )
    => \/ ret.journal = 0
       \/ \A i \in 1..Len(details) :
              details[i].journal_id = ret.journal
                  => (details[i].debit # 0 \/ details[i].credit # 0)

----------------------------------------------------------------------------
(* Transaction numbers: the generator, and a number that already exists *)

PrefixInputs == {"TRX", "SALES"}

InitNumbers ==
    /\ Init
    /\ accounts = ScenarioAccounts

\* One call of generate_unique_transaction_number(prefix), logged
GenerateNumber ==
    /\ Len(generated) < MaxGenerated
    /\ \E prefix \in PrefixInputs, random_num \in RandInputs :
        generated' = Append(generated,
            [prefix |-> prefix, at |-> now, random_num |-> random_num,
             number |-> generate_unique_transaction_number(prefix, now, random_num)])
    /\ UNCHANGED <<accounts, journals, details, now, initialised, ret, pc, sess, lock, prior>>
    /\ ShopIdle

NextNumbers ==
    \/ Tick
    \/ GenerateNumber

SpecNumbers == InitNumbers /\ [][NextNumbers]_vars

NumberedEntryInputs ==
    { << [account_id |-> 1, debit |-> 50000, credit |-> 0],
         [account_id |-> 2, debit |-> 0, credit |-> 50000] >>,
      << [account_id |-> 1, debit |-> 20000, credit |-> 0],
         [account_id |-> 2, debit |-> 0, credit |-> 20000] >> }

\* A call of create_journal_entry whose number, and the number generated
\* when that one exists, carry any of the random suffixes
CreateNumberedJournal ==
    /\ Len(journals) < MaxJournals
    /\ \E random_num \in RandInputs, fresh_num \in RandInputs,
          entries \in NumberedEntryInputs :
        LET number == generate_unique_transaction_number("TRX", now, random_num)
            fresh == generate_unique_transaction_number("TRX", now, fresh_num)
            r == create_journal_entry(Db, number, fresh, Today(now), "Jurnal umum", "general",
                                      entries, FALSE)
        IN  /\ accounts' = r.db.accounts
            /\ journals' = r.db.journals
            /\ details' = r.db.details
            /\ ret' = [NoCall EXCEPT !.op = "create_journal_entry",
                                      !.raised = r.raised, !.error = r.raised,
                                      !.journal = r.journal, !.existing = r.existing]
    /\ UNCHANGED <<now, initialised>>
    /\ Idle
    /\ ShopIdle

NextCollision ==
    \/ Tick
    \/ CreateNumberedJournal

SpecCollision == InitNumbers /\ [][NextCollision]_vars

\* C8: a call of create_journal_entry with a number that already exists does
\* not fail; it persists the entry under a number no other entry has.
C8_ExistingNumberIsReplaced ==
    (ret.op = "create_journal_entry" /\ ret.existing)
        => /\ ret.raised = ""
           /\ ret.journal = Len(journals)
           /\ \A i, k \in 1..Len(journals) :
                  i # k => journals[i].transaction_number # journals[k].transaction_number

----------------------------------------------------------------------------
(* Two requests that call create_journal_entry at the same time.  Each      *)
(* request has a session of its own; the database is SQLite, which lets one *)
(* connection write at a time: the INSERT of the flush takes the write lock *)
(* and the commit releases it.                                              *)

ConcAmount(p) == IF p = 1 THEN 10000 ELSE 20000

\* Each request debits Kas and credits Pendapatan
ConcEntries(p) ==
    << [account_id |-> 1, debit |-> ConcAmount(p), credit |-> 0],
       [account_id |-> 2, debit |-> 0, credit |-> ConcAmount(p)] >>

ConcNumber(p) == generate_unique_transaction_number("TRX", now, RandLo + p)

PriorBalanceInputs == {0, 50000}

InitConc ==
    /\ \E b \in PriorBalanceInputs :
        accounts = [ScenarioAccounts EXCEPT ![1].balance = b]
    /\ journals = <<>>
    /\ details = <<>>
    /\ now = 0
    /\ initialised = FALSE
    /\ ret = NoCall
    /\ generated = <<>>
    /\ pc = [p \in Procs |-> "start"]
    /\ sess = [p \in Procs |-> IdleSession]
    /\ lock = 0
    /\ prior = accounts
    /\ products = <<>>
    /\ orders = <<>>
    /\ report = NoReport
    /\ cart = <<>>

ConcFrame ==
    UNCHANGED <<now, initialised, ret, generated, prior, products, orders, report, cart>>

\* The caller queries the accounts before the call, as create_sales_journal
\* and create_journal_from_template do: the rows are now in the session
LoadAccounts(p) ==
    /\ pc[p] = "start"
    /\ sess' = [sess EXCEPT ![p].loaded = TRUE, ![p].accounts = accounts]
    /\ pc' = [pc EXCEPT ![p] = "called"]
    /\ UNCHANGED <<accounts, journals, details, lock>>
    /\ ConcFrame

\* The caller calls create_journal_entry with no account in its session
CallDirectly(p) ==
    /\ pc[p] = "start"
    /\ pc' = [pc EXCEPT ![p] = "called"]
    /\ UNCHANGED <<accounts, journals, details, sess, lock>>
    /\ ConcFrame

\* existing_journal = JournalEntry.query.filter_by(...).first()
CheckNumber(p) ==
    /\ pc[p] = "called"
    /\ sess' = [sess EXCEPT ![p].number =
                    IF NumberExists(journals, ConcNumber(p))
                    THEN generate_unique_transaction_number("TRX", now, RandHi)
                    ELSE ConcNumber(p)]
    /\ pc' = [pc EXCEPT ![p] = "checked"]
    /\ UNCHANGED <<accounts, journals, details, lock>>
    /\ ConcFrame

\* db.session.add(journal); db.session.flush(): the INSERT takes the write
\* lock, or raises IntegrityError when the number exists
FlushJournal(p) ==
    /\ pc[p] = "checked"
    /\ lock = 0
    /\ IF NumberExists(journals, sess[p].number)
       THEN /\ pc' = [pc EXCEPT ![p] = "raised"]
            /\ sess' = [sess EXCEPT ![p] = IdleSession]
            /\ UNCHANGED lock
       ELSE /\ pc' = [pc EXCEPT ![p] = "loop"]
            /\ sess' = [sess EXCEPT ![p].journal_id = Len(journals) + 1, ![p].line = 1]
            /\ lock' = p
    /\ UNCHANGED <<accounts, journals, details>>
    /\ ConcFrame

\* The flush waits for the write lock and gives up: "database is locked";
\* the except branch rolls back and raises
LockTimeout(p) ==
    /\ pc[p] = "checked"
    /\ lock \notin {0, p}
    /\ pc' = [pc EXCEPT ![p] = "raised"]
    /\ sess' = [sess EXCEPT ![p] = IdleSession]
    /\ UNCHANGED <<accounts, journals, details, lock>>
    /\ ConcFrame

\* One turn of the loop: the detail is added, db.session.get(Account, id)
\* gives the row the session holds (or reads it), the balance is updated in
\* the session
ApplyLine(p) ==
    /\ pc[p] = "loop"
    /\ LET entry == ConcEntries(p)[sess[p].line]
           held == IF sess[p].loaded THEN sess[p].accounts ELSE accounts
       IN  sess' = [sess EXCEPT
               ![p].loaded = TRUE,
               ![p].accounts = UpdateBalance(held, entry),
               ![p].dirty = IF HasAccount(held, entry.account_id)
                            THEN @ \cup {entry.account_id} ELSE @,
               ![p].details = Append(@, NewDetail(sess[p].journal_id, entry)),
               ![p].line = @ + 1]
    /\ pc' = [pc EXCEPT ![p] = IF sess[p].line = Len(ConcEntries(p))
                                THEN "commit" ELSE "loop"]
    /\ UNCHANGED <<accounts, journals, details, lock>>
    /\ ConcFrame

\* db.session.commit(): UPDATE account SET balance = <the session's value>
\* for the rows the session changed, INSERT of the details, COMMIT
Commit(p) ==
    /\ pc[p] = "commit"
    /\ accounts' = [i \in 1..Len(accounts) |->
                       IF i \in sess[p].dirty
                       THEN [accounts[i] EXCEPT !.balance = sess[p].accounts[i].balance]
                       ELSE accounts[i]]
    /\ journals' = Append(journals,
                      [transaction_number |-> sess[p].number, date |-> Today(now),
                       description |-> "Jurnal umum", journal_type |-> "general"])
    /\ details' = details \o sess[p].details
    /\ lock' = 0
    /\ pc' = [pc EXCEPT ![p] = "done"]
    /\ sess' = [sess EXCEPT ![p] = IdleSession]
    /\ ConcFrame

\* db.session.commit() raises: rollback, the exception is raised
CommitRaises(p) ==
    /\ pc[p] = "commit"
    /\ lock' = 0
    /\ pc' = [pc EXCEPT ![p] = "raised"]
    /\ sess' = [sess EXCEPT ![p] = IdleSession]
    /\ UNCHANGED <<accounts, journals, details>>
    /\ ConcFrame

NextConc ==
    \E p \in Procs :
        \/ LoadAccounts(p)
        \/ CallDirectly(p)
        \/ CheckNumber(p)
        \/ FlushJournal(p)
        \/ LockTimeout(p)
        \/ ApplyLine(p)
        \/ Commit(p)
        \/ CommitRaises(p)

SpecConc == InitConc /\ [][NextConc]_vars

\* C7: when both requests have committed, the balance of Kas is its prior
\* balance plus 30000.
C7_NoLostUpdate ==
    (pc[1] = "done" /\ pc[2] = "done")
        => accounts[1].balance = prior[1].balance + 30000

----------------------------------------------------------------------------
\* C15: whenever instantiation fails, for an unknown template key as well
\* as for a failure raised inside create_journal_entry,
\* create_journal_from_template returns None, leaves accounts, journal
\* entries and journal details unchanged and raises nothing to its caller.
C15_FailedTemplateReturnsNone ==
    [][ ( /\ CreateJournalFromTemplate
          /\ \/ ret'.template_key \notin DOMAIN TRANSACTION_TEMPLATES
             \/ ret'.error # "" )
        => /\ ret'.journal = 0
           /\ ret'.raised = ""
           /\ UNCHANGED <<accounts, journals, details>> ]_vars

\* A template call has failed inside create_journal_entry, at its commit,
\* on a database that already holds a journal
C15_Witness ==
    /\ ret.op = "create_journal_from_template"
    /\ ret.template_key \in DOMAIN TRANSACTION_TEMPLATES
    /\ ret.error = "OperationalError"
    /\ ret.journal = 0
    /\ Len(journals) > 0

\* The lines of template `key` whose account type some account has
MappedLines(key) ==
    SelectSeq(TRANSACTION_TEMPLATES[key].entries,
              LAMBDA line : \E i \in 1..Len(accounts) : accounts[i].type = line.account_type)

\* C16: create_journal_from_template drops, without raising, every template
\* line whose account_type has no Account of that type: unless the number
\* collides or the commit fails, the journal is posted and holds exactly the
\* lines whose account types are mapped, in template order, each on its
\* side, and only the accounts of those lines change balance.
C16_UnmappedLinesAreSkipped ==
    [][ ( /\ CreateJournalFromTemplate
          /\ ret'.template_key \in DOMAIN TRANSACTION_TEMPLATES
          /\ ret'.error \notin {"IntegrityError", "OperationalError"} )
        => LET mapped == MappedLines(ret'.template_key)
           IN  /\ ret'.error = ""
               /\ Len(journals') = Len(journals) + 1
               /\ ret'.journal = Len(journals')
               /\ Len(NewRows) = Len(mapped)
               /\ \A k \in 1..Len(mapped) :
                     /\ NewRows[k].journal_id = ret'.journal
                     /\ accounts[NewRows[k].account_id].type = mapped[k].account_type
                     /\ mapped[k].side = "debit" => NewRows[k].credit = 0
                     /\ mapped[k].side = "credit" => NewRows[k].debit = 0
               /\ \A i \in 1..Len(accounts) :
                     (\A k \in 1..Len(mapped) : accounts[i].type # mapped[k].account_type)
                         => accounts'[i] = accounts[i] ]_vars

\* 'setoran_modal' was posted on a chart that has an account of type 'kas'
\* and none of type 'modal': the journal holds the single line on Kas
C16_Witness ==
    /\ ret.op = "create_journal_from_template"
    /\ ret.template_key = "setoran_modal"
    /\ ret.journal # 0
    /\ \A i \in 1..Len(accounts) : accounts[i].type # "modal"
    /\ Len(RowsOf(ret.journal)) = 1
    /\ accounts[RowsOf(ret.journal)[1].account_id].type = "kas"

\* The keys of the amounts map follow the lines of template `key`: one key
\* per line, each starting with the account type of its line
KeysFollowLines(key, amounts) ==
    LET lines == TRANSACTION_TEMPLATES[key].entries
    IN  /\ Len(amounts) = Len(lines)
        /\ \A i \in 1..Len(lines) : startswith(amounts[i][1], lines[i].account_type)

\* C22: create_journal_from_template called with an ordered amounts map
\* whose keys follow the template's line order, each key starting with the
\* account type of its line, gives the i-th amount to the i-th template
\* line: the posted line of every mapped template line carries the amount
\* at that line's position, also when two lines share an account type.
C22_AmountsArePositional ==
    [][ ( /\ CreateJournalFromTemplate
          /\ ret'.journal # 0
          /\ KeysFollowLines(ret'.template_key, ret'.amounts) )
        => LET lines == TRANSACTION_TEMPLATES[ret'.template_key].entries
               positions == SelectSeq([i \in 1..Len(lines) |-> i],
                    LAMBDA i : \E a \in 1..Len(accounts) :
                                   accounts[a].type = lines[i].account_type)
           IN  /\ Len(NewRows) = Len(positions)
               /\ \A k \in 1..Len(positions) :
                     NewRows[k].debit + NewRows[k].credit
                         = ret'.amounts[positions[k]][2] ]_vars

\* 'penjualan_dengan_pengiriman' has been posted on the seeded chart with
\* the keys kas, pendapatan, beban_transport, kas2: its two lines on Kas
\* carry different amounts
C22_Witness ==
    /\ ret.op = "create_journal_from_template"
    /\ ret.template_key = "penjualan_dengan_pengiriman"
    /\ ret.journal # 0
    /\ KeysFollowLines(ret.template_key, ret.amounts)
    /\ Len(RowsOf(ret.journal)) = 4
    /\ RowsOf(ret.journal)[1].account_id = RowsOf(ret.journal)[4].account_id
    /\ RowsOf(ret.journal)[1].debit # RowsOf(ret.journal)[4].credit

\* (sum of the balances of asset and expense accounts) minus (sum of the
\* balances of liability, equity and revenue accounts)
RECURSIVE EquationGap(_)
EquationGap(accts) ==
    IF accts = <<>>
    THEN 0
    ELSE (IF Head(accts).category \in {"asset", "expense"}
          THEN Head(accts).balance
          ELSE 0 - Head(accts).balance) + EquationGap(Tail(accts))

\* C23: a successful create_journal_entry whose lines all reference
\* existing accounts changes (asset + expense balances) minus (liability +
\* equity + revenue balances) by exactly total debit - total credit of the
\* posted lines, so a balanced posting leaves that quantity unchanged.
C23_PostingMovesGapByDebitMinusCredit ==
    [][ ( /\ Posting
          /\ \A k \in 1..Len(NewRows) : HasAccount(accounts, NewRows[k].account_id) )
        => EquationGap(accounts') - EquationGap(accounts)
               = SumRows(NewRows, "debit") - SumRows(NewRows, "credit") ]_vars

\* A journal was posted by create_journal_entry with lines on existing
\* accounts of both kinds, an asset and a revenue account
C23_Witness ==
    /\ ret.op = "create_journal_entry"
    /\ ret.journal > 0
    /\ RowsOf(ret.journal) # <<>>
    /\ \A k \in 1..Len(RowsOf(ret.journal)) :
          HasAccount(accounts, RowsOf(ret.journal)[k].account_id)
    /\ \E k, l \in 1..Len(RowsOf(ret.journal)) :
          /\ accounts[RowsOf(ret.journal)[k].account_id].category = "asset"
          /\ accounts[RowsOf(ret.journal)[l].account_id].category = "revenue"

----------------------------------------------------------------------------
(* Orders and the sales journal *)

\* Account.query.filter_by(type=...).first(): the id of the row, 0 for None
FirstOfType(accts, type) ==
    LET found == { i \in 1..Len(accts) : accts[i].type = type }
    IN  IF found = {} THEN 0 ELSE CHOOSE i \in found : \A j \in found : i <= j

\* sum of price * quantity over the rows of a cart or of OrderItem
RECURSIVE ItemsTotal(_)
ItemsTotal(items) ==
    IF items = <<>> THEN 0
    ELSE Head(items).price * Head(items).quantity + ItemsTotal(Tail(items))

\* "Tambahkan ongkos kirim"
shipping_cost == 15000

\* product_total of a sales journal computed from the products' prices at
\* completion instead of the prices stored in the order's items
CurrentPriceTotal(prods, order) ==
    ItemsTotal([i \in 1..Len(order.items) |->
        [price |-> prods[order.items[i].product_id].price,
         quantity |-> order.items[i].quantity]])

\* product_total: the loop over the order's OrderItem rows
ProductTotal(prods, order) == ItemsTotal(order.items)

\* create_sales_journal(order): the database afterwards and the journal
\* returned (0: None); an exception of create_journal_entry is printed.
\* The description f"Penjualan Order #{order.order_number}" is kept as the
\* pair of its text and the order number.
create_sales_journal(db, prods, order, number, fresh, date, commit_fails) ==
    LET product_total == ProductTotal(prods, order)
        kas_account == FirstOfType(db.accounts, "kas")
        pendapatan_account == FirstOfType(db.accounts, "pendapatan")
        entries == << [account_id |-> kas_account, debit |-> product_total, credit |-> 0],
                      [account_id |-> pendapatan_account, debit |-> 0,
                       credit |-> product_total] >>
        r == create_journal_entry(db, number, fresh, date,
                                  <<"Penjualan Order #", order.order_number>>, "sales",
                                  entries, commit_fails)
    IN  IF kas_account # 0 /\ pendapatan_account # 0
        THEN [db |-> r.db, journal |-> r.journal, raised |-> r.raised]
        ELSE [db |-> db, journal |-> 0, raised |-> ""]

\* The tracking_mapping dict of update_tracking
tracking_mapping ==
    ("Pesanan diproses" :> "processing") @@ ("Pesanan dikemas" :> "processing") @@
    ("Pesanan dikirim" :> "processing") @@ ("Dalam perjalanan" :> "processing") @@
    ("Tiba di tujuan" :> "completed") @@ ("Pesanan selesai" :> "completed")

----------------------------------------------------------------------------
(* Inputs of the shop routes *)

\* What the customer of the shop adds to the cart: product and quantity
ShopCartInputs == { [product_id |-> 1, quantity |-> 2] }

\* JSON bodies of api_cart_add: int(quantity) is positive, zero or negative
CartAddInputs ==
    { [product_id |-> product_id, quantity |-> quantity] :
          product_id \in {1, 2}, quantity \in {0 - 1, 0, 1, 60} }

\* The form of add_product
NewProductForms ==
    { [name |-> "Ikan Mas Konsumsi", description |-> "Bibit pilihan",
       price |-> 2500, cost_price |-> 1000, stock |-> 10] }

\* The product the seller edits
ProductIdInputs == {1}

\* Forms of edit_product: a new price and a description that quotes the
\* description of the template 'pembelian_bibit_tunai', with a positive, a
\* zero and a negative cost price
ProductForms ==
    { [name |-> "Bibit Ikan Mas",
       description |-> "Stok: PEMBELIAN BIBIT IKAN MAS TAMBAHAN SECARA TUNAI",
       price |-> 2500, cost_price |-> cost_price] : cost_price \in {1000, 0, 0 - 1000} }

StatusInputs == {"processing", "completed"}

TrackingInputs == {"Pesanan selesai", "Paket hilang"}

ShopTemplateInputs == {"pembelian_bibit_tunai", "biaya_listrik", "tidak_ada"}

\* One amounts map serves both templates: each takes its keys with get()
ShopAmountsInputs ==
    { << <<"persediaan", 2500>>, <<"beban_listrik", 14000000>>, <<"kas", 2500>> >> }

\* Dates typed into the journal form: 2024-12-31 and 2025-01-02
DateInputs == {0 - 1, 1}

----------------------------------------------------------------------------
(* The shop routes *)

\* CartItem.query.filter_by(user_id=..., product_id=...).first(): the id of
\* the row, 0 for None
ExistingItem(items, product_id) ==
    LET found == { i \in 1..Len(items) : items[i].product_id = product_id }
    IN  IF found = {} THEN 0 ELSE CHOOSE i \in found : \A j \in found : i <= j

\* api_cart_add: quantity = int(quantity) is not checked for its sign; the
\* stock must cover the quantity added and, for a product already in the
\* cart, the quantity after the addition.  The cart is filled while another
\* order can be placed, with at most MaxCartQuantity units of a product.
ApiCartAdd(product_id, quantity) ==
    /\ initialised
    /\ Len(orders) < MaxOrders
    /\ LET existing_item == ExistingItem(cart, product_id)
           failure(message) ==
               /\ cart' = cart
               /\ ret' = [NoCall EXCEPT !.op = "api_cart_add", !.message = message]
       IN  IF product_id \notin 1..Len(products)
           THEN failure("Produk tidak ditemukan")
           ELSE IF products[product_id].stock < quantity
           THEN failure("Stock tidak mencukupi")
           ELSE IF existing_item # 0
           THEN IF products[product_id].stock < cart[existing_item].quantity + quantity
                THEN failure("Stock tidak mencukupi untuk jumlah yang diminta")
                ELSE /\ Abs(cart[existing_item].quantity + quantity) <= MaxCartQuantity
                     /\ cart' = [cart EXCEPT ![existing_item].quantity = @ + quantity]
                     /\ ret' = [NoCall EXCEPT !.op = "api_cart_add", !.success = TRUE]
           ELSE /\ cart' = Append(cart, [product_id |-> product_id, quantity |-> quantity])
                /\ ret' = [NoCall EXCEPT !.op = "api_cart_add", !.success = TRUE]
    /\ UNCHANGED <<accounts, journals, details, now, initialised, products, orders, report>>
    /\ Idle

\* remove_from_cart
RemoveFromCart(cart_item_id) ==
    /\ initialised
    /\ cart_item_id \in 1..Len(cart)
    /\ cart' = SubSeq(cart, 1, cart_item_id - 1) \o SubSeq(cart, cart_item_id + 1, Len(cart))
    /\ ret' = [NoCall EXCEPT !.op = "remove_from_cart"]
    /\ UNCHANGED <<accounts, journals, details, now, initialised, products, orders, report>>
    /\ Idle

\* The stock after the loop `product.stock -= cart_item.quantity`
StockAfterCheckout(prods, cart_items) ==
    [p \in 1..Len(prods) |->
        [prods[p] EXCEPT !.stock =
            @ - ItemsTotal(SelectSeq([i \in 1..Len(cart_items) |->
                                [price |-> 1, quantity |-> cart_items[i].quantity,
                                 product_id |-> cart_items[i].product_id]],
                            LAMBDA c : c.product_id = p))]]

\* process_checkout: the customer's cart, the stock check, the order with
\* its items at the products' current prices, the stock decrease, the
\* shipping cost, the cart emptied.  The order number is unique: a second
\* checkout in the same second fails.
ProcessCheckout ==
    /\ initialised
    /\ Len(orders) < MaxOrders
    /\ LET cart_items == cart
           order_number == Spelling["ORD"] \o strftime(now)
           items == [i \in 1..Len(cart_items) |->
                       [product_id |-> cart_items[i].product_id,
                        quantity |-> cart_items[i].quantity,
                        price |-> products[cart_items[i].product_id].price,
                        cost_price |-> products[cart_items[i].product_id].cost_price]]
           failure(message) ==
               /\ ret' = [NoCall EXCEPT !.op = "process_checkout", !.message = message]
               /\ UNCHANGED <<products, orders, cart>>
       IN  IF cart_items = <<>>
           THEN failure("Keranjang kosong")
           ELSE IF \E i \in 1..Len(cart_items) :
                      \/ cart_items[i].product_id \notin 1..Len(products)
                      \/ products[cart_items[i].product_id].stock < cart_items[i].quantity
           THEN failure("Stock tidak mencukupi")
           ELSE /\ \A o \in 1..Len(orders) : orders[o].order_number # order_number
                /\ orders' = Append(orders,
                       [order_number |-> order_number, status |-> "pending",
                        payment_status |-> "unpaid", tracking_info |-> "",
                        completed_date |-> 0 - 1,
                        total_amount |-> ItemsTotal(items) + shipping_cost,
                        items |-> items])
                /\ products' = StockAfterCheckout(products, cart_items)
                /\ cart' = <<>>
                /\ ret' = [NoCall EXCEPT !.op = "process_checkout", !.success = TRUE,
                                          !.message = "Checkout berhasil!"]
    /\ UNCHANGED <<accounts, journals, details, now, initialised, report>>
    /\ Idle

\* A payment confirmation that books the order's total on the balance of
\* the 'kas' account without a journal
ConfirmPaymentBookingCash(o) ==
    /\ initialised
    /\ orders' = [orders EXCEPT ![o].payment_status = "paid", ![o].status = "processing"]
    /\ accounts' = [accounts EXCEPT
                       ![FirstOfType(accounts, "kas")].balance = @ + orders[o].total_amount]
    /\ ret' = [NoCall EXCEPT !.op = "confirm_payment", !.success = TRUE]
    /\ UNCHANGED <<journals, details, now, initialised, products, report, cart>>
    /\ Idle

\* confirm_payment
ConfirmPayment(o) ==
    /\ initialised
    /\ orders' = [orders EXCEPT ![o].payment_status = "paid", ![o].status = "processing"]
    /\ ret' = [NoCall EXCEPT !.op = "confirm_payment", !.success = TRUE]
    /\ UNCHANGED <<accounts, journals, details, now, initialised, products, report, cart>>
    /\ Idle

\* edit_product
EditProduct(product_id, form) ==
    /\ initialised
    /\ product_id \in 1..Len(products)
    /\ products' = [products EXCEPT ![product_id].name = form.name,
                                     ![product_id].description = form.description,
                                     ![product_id].price = form.price,
                                     ![product_id].cost_price = form.cost_price]
    /\ ret' = [NoCall EXCEPT !.op = "edit_product"]
    /\ UNCHANGED <<accounts, journals, details, now, initialised, orders, report, cart>>
    /\ Idle

\* add_product, with at most MaxProducts products in the table
AddProduct(form) ==
    /\ initialised
    /\ Len(products) < MaxProducts
    /\ products' = Append(products, form)
    /\ ret' = [NoCall EXCEPT !.op = "add_product"]
    /\ UNCHANGED <<accounts, journals, details, now, initialised, orders, report, cart>>
    /\ Idle

\* An order whose changes are committed although create_journal_entry raised
OrderKeptAfterFailure(raised, stored, changed) == changed

\* The Order row after create_sales_journal and db.session.commit(): when
\* create_journal_entry raised, its db.session.rollback() has dropped the
\* pending changes of the order as well
OrderAfterSalesJournal(raised, stored, changed) ==
    IF raised = "" THEN changed ELSE stored

\* A guard that lets every order through
CanProcessAny(order) == TRUE

\* `if order and order.payment_status == 'paid'`
CanProcess(order) == order.payment_status = "paid"

\* What update_order_status and update_tracking do once the order's new
\* status is 'completed': completed_date, create_sales_journal, commit.
\* When create_journal_entry raised, its rollback has also dropped the
\* changes of the order.
CompleteOrder(o, changed, op) ==
    \E commit_fails \in BOOLEAN :
        LET order == [changed EXCEPT !.completed_date = now]
            number == generate_unique_transaction_number("SALES", now, RandLo)
            fresh == generate_unique_transaction_number("TRX", now, RandLo)
            r == create_sales_journal(Db, products, order, number, fresh, Today(now),
                                      commit_fails)
        IN  /\ accounts' = r.db.accounts
            /\ journals' = r.db.journals
            /\ details' = r.db.details
            /\ orders' = [orders EXCEPT ![o] = OrderAfterSalesJournal(r.raised, orders[o], order)]
            /\ ret' = [NoCall EXCEPT !.op = op, !.journal = r.journal, !.error = r.raised]

\* update_order_status: for an order that is not paid only the error is
\* flashed
UpdateOrderStatus(o, new_status) ==
    /\ initialised
    /\ Len(journals) < MaxShopJournals
    /\ IF CanProcess(orders[o])
       THEN IF new_status = "completed"
            THEN CompleteOrder(o, [orders[o] EXCEPT !.status = new_status],
                               "update_order_status")
            ELSE /\ orders' = [orders EXCEPT ![o].status = new_status]
                 /\ ret' = [NoCall EXCEPT !.op = "update_order_status"]
                 /\ UNCHANGED <<accounts, journals, details>>
       ELSE /\ ret' = [NoCall EXCEPT
                         !.op = "update_order_status",
                         !.message = "Order tidak dapat diproses karena pembayaran belum diterima!"]
            /\ UNCHANGED <<accounts, journals, details, orders>>
    /\ UNCHANGED <<now, initialised, products, report, cart>>
    /\ Idle

\* update_tracking: for an order that is not paid only the failure is
\* answered
UpdateTracking(o, tracking_info) ==
    /\ initialised
    /\ Len(journals) < MaxShopJournals
    /\ LET tracked == [orders[o] EXCEPT !.tracking_info = tracking_info]
           new_status == IF tracking_info \in DOMAIN tracking_mapping
                         THEN tracking_mapping[tracking_info]
                         ELSE orders[o].status
       IN  IF CanProcess(orders[o])
           THEN IF new_status # orders[o].status /\ new_status = "completed"
                THEN CompleteOrder(o, [tracked EXCEPT !.status = new_status],
                                   "update_tracking")
                ELSE /\ orders' = [orders EXCEPT
                                     ![o] = [tracked EXCEPT !.status = new_status]]
                     /\ ret' = [NoCall EXCEPT !.op = "update_tracking", !.success = TRUE]
                     /\ UNCHANGED <<accounts, journals, details>>
           ELSE /\ ret' = [NoCall EXCEPT
                             !.op = "update_tracking",
                             !.message = "Order tidak ditemukan atau belum dibayar"]
                /\ UNCHANGED <<accounts, journals, details, orders>>
    /\ UNCHANGED <<now, initialised, products, report, cart>>
    /\ Idle

\* add_template_journal: an unknown template key is answered with a
\* failure; otherwise create_journal_from_template, then
\* update_stock_from_journal when a journal was returned, and the answer
\* 'Jurnal berhasil disimpan'
AddTemplateJournalWith(template_key, date, amounts) ==
    /\ initialised
    /\ Len(journals) < MaxShopJournals
    /\ Len(SelectSeq(journals, LAMBDA j : j.journal_type = "general")) < MaxTemplateJournals
    /\ IF template_key \notin DOMAIN TRANSACTION_TEMPLATES
       THEN /\ ret' = [NoCall EXCEPT !.op = "add_template_journal",
                                      !.template_key = template_key,
                                      !.message = "Template tidak ditemukan"]
            /\ UNCHANGED <<accounts, journals, details, products>>
       ELSE \E commit_fails \in BOOLEAN :
            LET number == generate_unique_transaction_number("TRX", now, RandLo)
                fresh == generate_unique_transaction_number("TRX", now, RandLo)
                r == create_journal_from_template(Db, template_key, date, amounts, number,
                                                  fresh, commit_fails)
            IN  /\ accounts' = r.db.accounts
                /\ journals' = r.db.journals
                /\ details' = r.db.details
                /\ products' = IF r.journal # 0
                               THEN update_stock_from_journal(r.db, products, r.journal)
                               ELSE products
                /\ ret' = [NoCall EXCEPT !.op = "add_template_journal",
                                          !.error = r.error, !.journal = r.journal,
                                          !.existing = r.existing,
                                          !.template_key = template_key,
                                          !.amounts = amounts,
                                          !.success = TRUE,
                                          !.message = "Jurnal berhasil disimpan"]
    /\ UNCHANGED <<now, initialised, orders, report, cart>>
    /\ Idle

AddTemplateJournal ==
    \E template_key \in ShopTemplateInputs, date \in DateInputs,
       amounts \in ShopAmountsInputs :
        AddTemplateJournalWith(template_key, date, amounts)

InitShop ==
    /\ Init
    /\ accounts = <<>>

\* The requests of the shop, served within one second of the clock (the
\* clock and colliding numbers are the subject of SpecNumbers and
\* SpecCollision)
NextShop ==
    \/ CreateInitialData
    \/ \E item \in ShopCartInputs : ApiCartAdd(item.product_id, item.quantity)
    \/ ProcessCheckout
    \/ \E o \in 1..Len(orders) : ConfirmPayment(o)
    \/ \E product_id \in ProductIdInputs, form \in ProductForms :
           EditProduct(product_id, form)
    \/ \E o \in 1..Len(orders), new_status \in StatusInputs :
           UpdateOrderStatus(o, new_status)
    \/ \E o \in 1..Len(orders), tracking_info \in TrackingInputs :
           UpdateTracking(o, tracking_info)
    \/ AddTemplateJournal

SpecShop == InitShop /\ [][NextShop]_vars

\* The customer's requests on the cart: any sequence of api_cart_add,
\* remove_from_cart and process_checkout after start-up
NextCart ==
    \/ CreateInitialData
    \/ \E item \in CartAddInputs : ApiCartAdd(item.product_id, item.quantity)
    \/ \E cart_item_id \in 1..Len(cart) : RemoveFromCart(cart_item_id)
    \/ ProcessCheckout

SpecCart == InitShop /\ [][NextCart]_vars

----------------------------------------------------------------------------
(* Properties of the reports *)

\* C11: get_balance_sheet reports "balanced" exactly when the total of the
\* positive asset balances equals the total of the positive liability
\* balances plus the total of the positive equity balances plus net income
\* (revenue balances minus expense balances), net income counted once.
C11_BalancedIffAccountingEquation ==
    get_balance_sheet(accounts).balanced
        <=> ( SumPositiveBalances(ByCategory(accounts, "asset"))
              = SumPositiveBalances(ByCategory(accounts, "liability"))
                + SumPositiveBalances(ByCategory(accounts, "equity"))
                + ( SumBalances(ByCategory(accounts, "revenue"))
                    - SumBalances(ByCategory(accounts, "expense")) ) )

----------------------------------------------------------------------------
(* The report generators as requests: each only queries the tables; when a *)
(* query raises, the except branch returns an error text.                  *)

ReportFrame ==
    /\ UNCHANGED <<accounts, journals, details, now, initialised, ret, products, orders, cart>>
    /\ Idle

GetTrialBalance ==
    /\ Serving
    /\ \E raises \in BOOLEAN :
        report' = IF raises
                  THEN [op |-> "get_trial_balance", value |-> 0, error |-> TRUE]
                  ELSE [op |-> "get_trial_balance", value |-> get_trial_balance(accounts), error |-> FALSE]
    /\ ReportFrame

\* A ledger that stores each account's recomputed running balance
GetLedgerDataStoringBalances ==
    /\ Serving
    /\ report' = [op |-> "get_ledger_data",
                  value |-> get_ledger_data(accounts, journals, details), error |-> FALSE]
    /\ accounts' = [i \in 1..Len(accounts) |->
                       [accounts[i] EXCEPT !.balance =
                           ConventionTotal(accounts[i].category, details, i)]]
    /\ UNCHANGED <<journals, details, now, initialised, ret, products, orders, cart>>
    /\ Idle

GetLedgerData ==
    /\ Serving
    /\ \E raises \in BOOLEAN :
        report' = IF raises
                  THEN [op |-> "get_ledger_data", value |-> 0, error |-> TRUE]
                  ELSE [op |-> "get_ledger_data", value |-> get_ledger_data(accounts, journals, details), error |-> FALSE]
    /\ ReportFrame

GetIncomeStatement ==
    /\ Serving
    /\ \E raises \in BOOLEAN :
        report' = IF raises
                  THEN [op |-> "get_income_statement", value |-> 0, error |-> TRUE]
                  ELSE [op |-> "get_income_statement", value |-> get_income_statement(accounts), error |-> FALSE]
    /\ ReportFrame

GetBalanceSheet ==
    /\ Serving
    /\ \E raises \in BOOLEAN :
        report' = IF raises
                  THEN [op |-> "get_balance_sheet", value |-> 0, error |-> TRUE]
                  ELSE [op |-> "get_balance_sheet", value |-> get_balance_sheet(accounts), error |-> FALSE]
    /\ ReportFrame

GetCashFlowStatement ==
    /\ Serving
    /\ \E raises \in BOOLEAN :
        report' = IF raises
                  THEN [op |-> "get_cash_flow_statement", value |-> 0, error |-> TRUE]
                  ELSE [op |-> "get_cash_flow_statement", value |-> get_cash_flow_statement(accounts), error |-> FALSE]
    /\ ReportFrame

\* calculate_net_income(): its except branch returns 0
CalculateNetIncome ==
    /\ Serving
    /\ \E raises \in BOOLEAN :
        report' = IF raises
                  THEN [op |-> "calculate_net_income", value |-> 0, error |-> TRUE]
                  ELSE [op |-> "calculate_net_income",
                        value |-> calculate_net_income(accounts), error |-> FALSE]
    /\ ReportFrame

ReportStep ==
    \/ GetTrialBalance
    \/ GetLedgerData
    \/ GetIncomeStatement
    \/ GetBalanceSheet
    \/ GetCashFlowStatement
    \/ CalculateNetIncome

\* The accounting page after start-up and after template journals
NextReports ==
    \/ CreateInitialData
    \/ CreateJournalFromTemplate
    \/ GetTrialBalance
    \/ GetLedgerData
    \/ GetIncomeStatement
    \/ GetBalanceSheet
    \/ GetCashFlowStatement
    \/ CalculateNetIncome

SpecReports == Init /\ [][NextReports]_vars

\* The whole application after start-up: the cart, checkout and payment,
\* the seller's product and order routes, a purchase journal with its stock
\* hook, and the reports of the accounting page
NextStore ==
    \/ CreateInitialData
    \/ \E item \in ShopCartInputs : ApiCartAdd(item.product_id, item.quantity)
    \/ \E cart_item_id \in 1..Len(cart) : RemoveFromCart(cart_item_id)
    \/ ProcessCheckout
    \/ \E o \in 1..Len(orders) : ConfirmPayment(o)
    \/ \E form \in NewProductForms : AddProduct(form)
    \/ \E product_id \in ProductIdInputs, form \in ProductForms :
           form.cost_price > 0 /\ EditProduct(product_id, form)
    \/ \E o \in 1..Len(orders) : UpdateOrderStatus(o, "completed")
    \/ \E amounts \in ShopAmountsInputs :
           AddTemplateJournalWith("pembelian_bibit_tunai", 1, amounts)
    \/ ReportStep

SpecStore == InitShop /\ [][NextStore]_vars

----------------------------------------------------------------------------
(* Properties of the shop routes *)

\* A step of update_order_status or update_tracking on order o
OrderRouteStep(o) ==
    \/ \E new_status \in StatusInputs : UpdateOrderStatus(o, new_status)
    \/ \E tracking_info \in TrackingInputs : UpdateTracking(o, tracking_info)

\* A step in which one of the two routes calls create_sales_journal(order)
SalesJournalCalled(o) ==
    /\ CanProcess(orders[o])
    /\ \/ UpdateOrderStatus(o, "completed")
       \/ \E tracking_info \in TrackingInputs :
              /\ tracking_info \in DOMAIN tracking_mapping
              /\ tracking_mapping[tracking_info] = "completed"
              /\ orders[o].status # "completed"
              /\ UpdateTracking(o, tracking_info)

\* C12: create_sales_journal(order), when create_journal_entry does not
\* raise, posts one journal of type 'sales' with exactly two lines, a debit
\* on the 'kas' account and a credit on the 'pendapatan' account, both of
\* sum(item.price * item.quantity) over the order's items, which is the
\* order's total_amount minus the 15000 shipping cost, whatever the products'
\* prices are at completion.
C12_SalesJournalPostsProductTotal ==
    [][ \A o \in 1..Len(orders) :
          (SalesJournalCalled(o) /\ ret'.error = "")
          => /\ Len(journals') = Len(journals) + 1
             /\ journals'[Len(journals')].journal_type = "sales"
             /\ ret'.journal = Len(journals')
             /\ NewRows =
                  << [journal_id |-> Len(journals'),
                      account_id |-> FirstOfType(accounts, "kas"),
                      debit |-> ItemsTotal(orders[o].items), credit |-> 0],
                     [journal_id |-> Len(journals'),
                      account_id |-> FirstOfType(accounts, "pendapatan"),
                      debit |-> 0, credit |-> ItemsTotal(orders[o].items)] >>
             /\ ItemsTotal(orders[o].items) = orders[o].total_amount - 15000 ]_vars

\* A sales journal has just been posted for an order whose first product
\* was given another price after checkout
C12_Witness ==
    /\ ret.op \in {"update_order_status", "update_tracking"}
    /\ ret.journal # 0
    /\ journals[ret.journal].journal_type = "sales"
    /\ \E o \in 1..Len(orders) :
          /\ orders[o].status = "completed"
          /\ products[orders[o].items[1].product_id].price # orders[o].items[1].price

\* C13: update_order_status and update_tracking post a sales journal only
\* when the order's status changes from a non-completed status to
\* 'completed'; a request on an order that is already completed, or that
\* sets another status, leaves accounts, journals and details unchanged.
C13_JournalOnlyOnTransitionToCompleted ==
    [][ \A o \in 1..Len(orders) :
          ( /\ OrderRouteStep(o)
            /\ ~(orders[o].status # "completed" /\ orders'[o].status = "completed") )
          => UNCHANGED <<accounts, journals, details>> ]_vars

\* C14: the report generators get_trial_balance, get_ledger_data,
\* get_income_statement, get_balance_sheet, get_cash_flow_statement and
\* calculate_net_income leave every Account, JournalEntry, JournalDetail and
\* Product unchanged, in every state and also on their error path.
C14_ReportsChangeNothing ==
    [][ ReportStep => UNCHANGED <<accounts, journals, details, products>> ]_vars

\* A report was generated, and one took its error path, on a database whose
\* balances differ from the replay of its journal details
C14_Witness ==
    /\ report.op = "get_ledger_data"
    /\ report.error
    /\ Len(products) > 0
    /\ \E i \in 1..Len(accounts) :
          accounts[i].balance # ConventionTotal(accounts[i].category, details, i)

\* C17: get_ledger_data lists the JournalDetail rows of each account in
\* chronological order: the journal dates of consecutive rows of one
\* account never decrease.
C17_LedgerRowsChronological ==
    LET ledger == get_ledger_data(accounts, journals, details)
    IN  \A n \in 1..Len(ledger) :
            \A k \in 1..(Len(ledger[n].rows) - 1) :
                ledger[n].rows[k].date <= ledger[n].rows[k + 1].date

\* C18: get_income_statement, get_balance_sheet, the net operating cash
\* flow of get_cash_flow_statement and calculate_net_income yield the same
\* net income in every reachable state: the sum of the balances of the
\* revenue accounts minus the sum of the balances of the expense accounts.
C18_NetIncomeAgrees ==
    LET net_income == SumBalances(ByCategory(accounts, "revenue"))
                      - SumBalances(ByCategory(accounts, "expense"))
    IN  /\ get_income_statement(accounts).net_income = net_income
        /\ get_balance_sheet(accounts).net_income = net_income
        /\ get_cash_flow_statement(accounts).net_cash_operating = net_income
        /\ calculate_net_income(accounts) = net_income

\* Revenue and expenses have both been posted and the expenses exceed the
\* revenue
C18_Witness ==
    /\ SumBalances(ByCategory(accounts, "revenue")) > 0
    /\ SumBalances(ByCategory(accounts, "expense"))
           > SumBalances(ByCategory(accounts, "revenue"))
    /\ \E j \in 1..Len(journals) : journals[j].journal_type = "sales"

\* The lines of the journal just posted that debit an account of type
\* 'persediaan' with debit > 0
PurchaseLines == SelectSeq(NewRows, LAMBDA d : accounts[d.account_id].type = "persediaan"
                                                /\ d.debit > 0)

\* The sum over the lines of debit / cost_price truncated toward zero
RECURSIVE PurchasedQuantity(_, _)
PurchasedQuantity(lines, cost_price) ==
    IF lines = <<>> THEN 0
    ELSE Quotient(Head(lines).debit, cost_price)
         + PurchasedQuantity(Tail(lines), cost_price)

\* C19: update_stock_from_journal, called for the journal that
\* add_template_journal has posted: when the journal has lines debiting an
\* account of type 'persediaan' with debit > 0 and a product matches the
\* journal description, that product's stock increases by debit / cost_price
\* truncated toward zero for each such line; when there is no such line or
\* no product matches, the stock of every product is unchanged.
C19_StockFollowsPurchase ==
    [][ (AddTemplateJournal /\ ret'.journal # 0)
        => LET product == FirstProduct(products, journals'[ret'.journal].description)
           IN  IF PurchaseLines # <<>> /\ product # 0
               THEN /\ products[product].cost_price # 0
                    /\ products' = [products EXCEPT ![product].stock =
                          @ + PurchasedQuantity(PurchaseLines, products[product].cost_price)]
               ELSE products' = products ]_vars

\* C20: in every JournalDetail persisted through the application's posting
\* paths (template instantiation, sales journal, opening journal) at most
\* one of debit and credit is non-zero.
C20_OneSidedDetails ==
    \A k \in 1..Len(details) : details[k].debit = 0 \/ details[k].credit = 0

\* The opening journal, a template journal and a sales journal have been
\* posted, each with lines of a non-zero amount
C20_Witness ==
    \A journal_type \in {"opening_balance", "general", "sales"} :
        \E j \in 1..Len(journals) :
            /\ journals[j].journal_type = journal_type
            /\ \E k \in 1..Len(details) :
                  /\ details[k].journal_id = j
                  /\ details[k].debit + details[k].credit > 0

\* C25: an order's status never moves backwards: once an order is
\* 'completed', no confirm_payment, update_order_status or update_tracking
\* request changes its status to anything else.
C25_CompletedIsFinal ==
    [][ \A o \in 1..Len(orders) :
            orders[o].status = "completed" => orders'[o].status = "completed" ]_vars

\* C29: for every account get_ledger_data shows, the running balance after
\* its last row, replayed from the opening balance 0, equals the stored
\* balance shown as "Saldo Akhir".
C29_LedgerClosesOnStoredBalance ==
    LET ledger == get_ledger_data(accounts, journals, details)
    IN  \A n \in 1..Len(ledger) :
            ledger[n].rows[Len(ledger[n].rows)].running_balance = ledger[n].saldo_akhir

\* C30: every transaction number stored in a JournalEntry is at most as
\* long as the declared length of JournalEntry.transaction_number.
C30_NumberFitsColumn ==
    \A j \in 1..Len(journals) :
        Len(journals[j].transaction_number) <= TransactionNumberLength

\* The persisted sales journals of an order: type 'sales' with the
\* description 'Penjualan Order #<order_number>'
SalesJournalsOf(order) ==
    { j \in 1..Len(journals) :
        /\ journals[j].journal_type = "sales"
        /\ journals[j].description = <<"Penjualan Order #", order.order_number>> }

\* C24: while the 'kas' and 'pendapatan' accounts exist, an order whose
\* persisted status is 'completed' has at least one persisted sales journal:
\* when posting the sales journal fails the order is not left 'completed'.
C24_CompletedOrderHasSalesJournal ==
    (FirstOfType(accounts, "kas") # 0 /\ FirstOfType(accounts, "pendapatan") # 0)
        => \A o \in 1..Len(orders) :
               orders[o].status = "completed" => SalesJournalsOf(orders[o]) # {}

\* create_journal_entry has just raised in create_sales_journal for a paid
\* order that has no sales journal: the order is not 'completed'
C24_Witness ==
    /\ ret.op \in {"update_order_status", "update_tracking"}
    /\ ret.error # ""
    /\ FirstOfType(accounts, "kas") # 0
    /\ FirstOfType(accounts, "pendapatan") # 0
    /\ \E o \in 1..Len(orders) :
          /\ orders[o].payment_status = "paid"
          /\ orders[o].status # "completed"
          /\ SalesJournalsOf(orders[o]) = {}

\* C26: update_order_status and update_tracking change an order's status,
\* and a sales journal is posted for it, only while its payment_status is
\* 'paid': for an order that is not paid these requests change neither the
\* order nor any account balance nor the journal entries.
C26_UnpaidOrderIsUntouched ==
    [][ \A o \in 1..Len(orders) :
          (OrderRouteStep(o) /\ orders[o].payment_status # "paid")
          => UNCHANGED <<orders, accounts, journals, details>> ]_vars

\* update_order_status or update_tracking has just been refused for an
\* order that is not paid
C26_Witness ==
    /\ ret.op \in {"update_order_status", "update_tracking"}
    /\ ret.message \in {"Order tidak dapat diproses karena pembayaran belum diterima!",
                         "Order tidak ditemukan atau belum dibayar"}
    /\ \E o \in 1..Len(orders) :
          orders[o].payment_status = "unpaid" /\ orders[o].status = "pending"

\* C28: add_template_journal answers success ('Jurnal berhasil disimpan')
\* only if the request persisted a journal entry: when
\* create_journal_from_template returned None the response reports failure.
C28_SuccessMeansJournalPersisted ==
    (ret.op = "add_template_journal" /\ ret.success) => ret.journal # 0

\* C27: a successful checkout reduces the stock of each product in the cart
\* by a positive quantity and leaves it >= 0 (0 <= new stock < old stock),
\* and no checkout increases the stock of a product.
C27_CheckoutReducesStock ==
    [][ ProcessCheckout
        => \A p \in 1..Len(products) :
               /\ products'[p].stock <= products[p].stock
               /\ (ret'.success /\ ExistingItem(cart, p) # 0)
                      => (0 <= products'[p].stock /\ products'[p].stock < products[p].stock)
      ]_vars

\* A step of a route that posts no journal: the cart, checkout, payment
\* confirmation, the product forms and the reports
NonPostingStep ==
    \/ \E item \in ShopCartInputs : ApiCartAdd(item.product_id, item.quantity)
    \/ \E cart_item_id \in 1..Len(cart) : RemoveFromCart(cart_item_id)
    \/ ProcessCheckout
    \/ \E o \in 1..Len(orders) : ConfirmPayment(o)
    \/ \E form \in NewProductForms : AddProduct(form)
    \/ \E product_id \in ProductIdInputs, form \in ProductForms :
           EditProduct(product_id, form)
    \/ ReportStep

\* C21: after seeding, account balances are changed only by
\* create_journal_entry: every step keeps the accounts and changes a balance
\* only by the signed total of the JournalDetail rows it posts with a new
\* JournalEntry, so checkout, payment confirmation, the cart, the stock
\* hook, the product forms and the reports leave every balance unchanged;
\* and no step deletes an Account or deletes or modifies a persisted
\* JournalEntry or JournalDetail.
C21_BalancesChangeOnlyByPosting ==
    [][ initialised
        => /\ Len(accounts') = Len(accounts)
           /\ \A i \in 1..Len(accounts) :
                 accounts'[i] =
                     [accounts[i] EXCEPT !.balance =
                         @ + ConventionTotal(accounts[i].category, NewRows, i)]
           /\ Len(journals') >= Len(journals)
           /\ SubSeq(journals', 1, Len(journals)) = journals
           /\ Len(details') >= Len(details)
           /\ SubSeq(details', 1, Len(details)) = details
           /\ NewRows # <<>> => Len(journals') = Len(journals) + 1
           /\ NonPostingStep => UNCHANGED <<accounts, journals, details>> ]_vars

\* After a checkout, its payment, a product added and the order's sales
\* journal posted by create_journal_entry, a report has been generated
C21_Witness ==
    /\ initialised
    /\ ret.op = "update_order_status"
    /\ ret.journal # 0
    /\ Len(products) = Len(SeedProducts) + 1
    /\ report.op = "get_ledger_data"
    /\ \E o \in 1..Len(orders) : orders[o].payment_status = "paid"
    /\ \E i \in 1..Len(accounts) : accounts[i].balance # SeedAccounts[i].balance

============================================================================
